---- MODULE Spec2Model ----
(***************************************************************************)
(* Model of templates/conftest_base.py: the VerificationTracker ledger and *)
(* the AdversarialAttacker input generator.                                *)
(*                                                                         *)
(* Every method is an operator from the object's state and the arguments   *)
(* to the object's new state (and the returned value); every action is one *)
(* whole method call.  `ret' holds what the last call handed back to its   *)
(* caller: the operation, its arguments, the value returned or the         *)
(* exception raised.                                                       *)
(***************************************************************************)
EXTENDS Integers, Sequences, FiniteSets, TLC

VARIABLES results, calls, attacker, twin, artifacts, twinArtifacts, ret,
          pending, workers, trackers, attackers

vars == <<results, calls, attacker, twin, artifacts, twinArtifacts, ret,
          pending, workers, trackers, attackers>>

ledgerVars == <<results, calls>>

attackerVars == <<attacker, twin, artifacts, twinArtifacts>>

\* the call a comparison session is about to make
comparatorVars == <<pending>>

\* the workers of a parallel session and the instances they use
workerVars == <<workers, trackers, attackers>>

\* ------------------------------------------------------------------ bounds
\* at most this many record calls per session
MaxCalls == 2

\* at most this many random_tensor calls per session
MaxAttempts == 2

\* at most this many record_failure calls per session
MaxFailures == 2

\* at most this many record_near_miss calls per session
MaxNearMisses == 1

\* number of states of the modelled random source
RngMod == 16

\* at most this many random_tensor calls in a generation trial
MaxTrials == 1

\* ------------------------------------------------------------ input sets
Targets == {"qr", "eig"}

VERIFICATION_LEVELS == [L0 |-> "draft", L1 |-> "cross-checked", L2 |-> "tested",
                        L3 |-> "adversarial", L4 |-> "proven"]

Levels == DOMAIN VERIFICATION_LEVELS

Challengers == {"source", "reviewer"}

\* details: Optional[Dict]; the default None, or a dict
DetailsArgs == {"None", "{k: v}"}

Timestamps == {"t1"}

\* the strict total order of the levels, L0 < L1 < L2 < L3 < L4
LevelRank == [L0 |-> 0, L1 |-> 1, L2 |-> 2, L3 |-> 3, L4 |-> 4]

\* ==================================================== VerificationTracker

\* __init__: self.results = {}
TrackerInit == <<>>

\* Python's `details or {}`: a falsy value (None, {}) yields a new empty dict
DetailsOrEmpty(details) == IF details \in {"None", "{}"} THEN "{}" ELSE details

\* the dict appended to the history by record
HistoryEntry(level, challenger, passed, details, timestamp) ==
    [level |-> level, challenger |-> challenger, passed |-> passed,
     details |-> DetailsOrEmpty(details), timestamp |-> timestamp]

\* a create_record that starts a new ledger for a target it does not know
create_record_fresh_ledger(res, target) ==
    IF target \notin DOMAIN res THEN (target :> [history |-> <<>>]) ELSE res

\* if target not in self.results: self.results[target] = {"history": []}
create_record(res, target) ==
    IF target \notin DOMAIN res THEN res @@ (target :> [history |-> <<>>]) ELSE res

\* self.results[target]["history"].append(entry)
append_history(res, target, entry) ==
    [res EXCEPT ![target] =
        [k \in DOMAIN res[target] |->
            IF k = "history" THEN Append(res[target].history, entry)
            ELSE res[target][k]]]

\* self.results[target]["current_level"] = level
set_current_level(res, target, level) ==
    [res EXCEPT ![target] = ("current_level" :> level) @@ res[target]]

\* a get_level that indexes the dicts: a missing key is a KeyError
get_level_by_index(res, target) ==
    IF target \in DOMAIN res /\ "current_level" \in DOMAIN res[target]
    THEN res[target]["current_level"]
    ELSE "KeyError"

\* get_level(self, target): self.results.get(target, {}).get("current_level", "L0")
get_level(res, target) ==
    LET rec == IF target \in DOMAIN res THEN res[target] ELSE <<>>
    IN  IF "current_level" \in DOMAIN rec THEN rec["current_level"] ELSE "L0"

\* a record that only ever raises the current level
record_keeps_highest(res, target, level, challenger, passed, details, timestamp) ==
    LET appended == append_history(create_record(res, target), target,
                        HistoryEntry(level, challenger, passed, details, timestamp))
    IN  IF passed /\ LevelRank[level] >= LevelRank[get_level(appended, target)]
        THEN set_current_level(appended, target, level)
        ELSE appended

\* a record that sets the current level without looking at passed
record_ignores_passed(res, target, level, challenger, passed, details, timestamp) ==
    set_current_level(
        append_history(create_record(res, target), target,
            HistoryEntry(level, challenger, passed, details, timestamp)),
        target, level)

\* a record that keeps only the latest entry of a target
record_overwrites_history(res, target, level, challenger, passed, details, timestamp) ==
    LET fresh == [t \in DOMAIN res \cup {target} |->
                    IF t = target THEN [history |-> <<>>] ELSE res[t]]
        appended == append_history(fresh, target,
                        HistoryEntry(level, challenger, passed, details, timestamp))
        kept == IF target \in DOMAIN res /\ "current_level" \in DOMAIN res[target]
                THEN set_current_level(appended, target, res[target]["current_level"])
                ELSE appended
    IN  IF passed THEN set_current_level(kept, target, level) ELSE kept

\* record(self, target, level, challenger, passed, details): the new self.results
record(res, target, level, challenger, passed, details, timestamp) ==
    LET appended == append_history(create_record(res, target), target,
                        HistoryEntry(level, challenger, passed, details, timestamp))
    IN  IF passed THEN set_current_level(appended, target, level) ELSE appended

\* yaml.dump(self.results): a mapping of each target to the mapping of the
\* keys its dict holds; nothing is added and nothing is left out
yaml_dump(res) == [t \in DOMAIN res |-> [k \in DOMAIN res[t] |-> res[t][k]]]

\* the arguments of one record call, as the caller passed them
CallArgs(target, level, challenger, passed, details) ==
    [target |-> target, level |-> level, challenger |-> challenger,
     passed |-> passed, details |-> details]

Record(target, level, challenger, passed, details, timestamp) ==
    /\ Len(calls) < MaxCalls
    /\ results' = record(results, target, level, challenger, passed, details,
                         timestamp)
    /\ calls' = Append(calls, CallArgs(target, level, challenger, passed, details))
    /\ ret' = [op |-> "record", target |-> target, value |-> "None"]
    /\ UNCHANGED <<attackerVars, comparatorVars, workerVars>>

GetLevel(target) ==
    /\ ret' = [op |-> "get_level", target |-> target,
               value |-> get_level(results, target)]
    /\ UNCHANGED <<ledgerVars, attackerVars, comparatorVars, workerVars>>

Export ==
    /\ ret' = [op |-> "export", target |-> "", value |-> "None",
               doc |-> yaml_dump(results)]
    /\ UNCHANGED <<ledgerVars, attackerVars, comparatorVars, workerVars>>

\* ===================================================== AdversarialAttacker

DEFAULT_SEED == 42

Seeds == {DEFAULT_SEED, 7}

Shapes == {<<2>>, <<2, 2>>, <<0>>}

Strategies == {"normal", "boundary", "sparse", "ill_conditioned", "typo"}

\* np.random.default_rng(seed): the random source is a deterministic state
\* machine; its state after construction is a function of the seed
default_rng(seed) == seed % RngMod

\* one step of the random source
rngNext(s) == (5 * s + 3) % RngMod

\* the state of the random source after n steps: n steps are n \div 2 steps
\* taken twice, and one more when n is odd
RECURSIVE rngAfter(_, _)
rngAfter(s, n) ==
    IF s \in Nat /\ n > 1
    THEN IF n % 2 = 0 THEN rngAfter(rngAfter(s, n \div 2), n \div 2)
         ELSE rngNext(rngAfter(rngAfter(s, n \div 2), n \div 2))
    ELSE IF n = 1 THEN rngNext(s) ELSE s

\* a standard normal sample is a function of the state that produced it
\* (a sample is never exactly zero)
NormalSample(s) ==
    <<"-1.3", "0.4", "-0.2", "0.9", "1.7", "-2.1", "0.6", "-0.8">>[(s % 8) + 1]

\* np.prod(shape)
RECURSIVE prod(_)
prod(shape) == IF shape = <<>> THEN 1 ELSE Head(shape) * prod(Tail(shape))

\* rng.standard_normal(shape): prod(shape) samples, flat, in draw order
standard_normal(s, shape) ==
    [out |-> [i \in 1..prod(shape) |-> NormalSample(rngAfter(s, i))],
     rng |-> rngAfter(s, prod(shape))]

\* choices = [1e-15, 1e15, 0.0, 1.0, -1.0]
choices == <<"1e-15", "1e15", "0.0", "1.0", "-1.0">>

\* rng.choice(choices, size=shape): prod(shape) independent picks
choice(s, a, shape) ==
    [out |-> [i \in 1..prod(shape) |-> a[(rngAfter(s, i) % Len(a)) + 1]],
     rng |-> rngAfter(s, prod(shape))]

\* the sequence seq without its i-th element
RemoveAt(seq, i) == [j \in 1..(Len(seq) - 1) |-> IF j < i THEN seq[j] ELSE seq[j + 1]]

\* rng.choice(population, size=k, replace=False) for k <= population: k flat
\* indices (0-based), one draw each, each taken out of those not yet chosen
RECURSIVE pickDistinct(_, _, _)
pickDistinct(s, remaining, k) ==
    IF k = 0 THEN [out |-> <<>>, rng |-> s]
    ELSE LET s1 == rngNext(s)
             i == (s1 % Len(remaining)) + 1
             rest == pickDistinct(s1, RemoveAt(remaining, i), k - 1)
         IN  [out |-> <<remaining[i]>> \o rest.out, rng |-> rest.rng]

choice_no_replace(s, population, k) ==
    pickDistinct(s, [i \in 1..population |-> i - 1], k)

\* round(n / 10), a half going to the even neighbour
RoundTenth(n) ==
    IF n % 10 > 5 \/ (n % 10 = 5 /\ (n \div 10) % 2 = 1)
    THEN (n \div 10) + 1 ELSE n \div 10

\* floor(n / 10)
FloorTenth(n) == n \div 10

AtLeast1(n) == IF n > 1 THEN n ELSE 1

\* an nnz that rounds the tenth to the nearest integer
nnz_rounded(shape) == AtLeast1(RoundTenth(prod(shape)))

\* max(1, int(np.prod(shape) * 0.1)); int truncates, and for the element
\* counts modelled here the double product truncates to prod(shape) \div 10
nnz(shape) == IF (prod(shape) \div 10) > 1 THEN prod(shape) \div 10 ELSE 1

\* a real array as complex128: the imaginary part is zero
Real(x) == [re |-> x, im |-> "0.0"]

\* torch.from_numpy(np.asarray(data, dtype=np.complex128))
Tensor(shape, form, data) == [shape |-> shape, form |-> form, data |-> data]

\* __init__(self, seed)
AttackerInit(seed) ==
    [rng |-> default_rng(seed), attempts |-> 0, failures |-> 0, near_misses |-> 0]

\* data = a + 1j * b, element by element
Complex(a, b) == [i \in 1..Len(a) |-> [re |-> a[i], im |-> b[i]]]

\* strategy == "normal": real part drawn first, then the imaginary part
gen_normal(s, shape) ==
    LET a == standard_normal(s, shape)
        b == standard_normal(a.rng, shape)
    IN  [raised |-> FALSE, rng |-> b.rng,
         value |-> Tensor(shape, "elements", Complex(a.out, b.out))]

\* strategy == "boundary"
gen_boundary(s, shape) ==
    LET a == choice(s, choices, shape)
        b == choice(a.rng, choices, shape)
    IN  [raised |-> FALSE, rng |-> b.rng,
         value |-> Tensor(shape, "elements", Complex(a.out, b.out))]

\* strategy == "sparse": zeros, then np.put of nnz samples at the chosen flat
\* indices (rng.choice raises ValueError when asked for more distinct indices
\* than there are elements, before drawing anything)
gen_sparse(s, shape) ==
    IF nnz(shape) > prod(shape)
    THEN [raised |-> TRUE, rng |-> s, value |-> "ValueError"]
    ELSE LET indices == choice_no_replace(s, prod(shape), nnz(shape))
             vals == standard_normal(indices.rng, <<nnz(shape)>>)
             \* np.put writes in order: the last write to a position stays
             put == [i \in 1..prod(shape) |->
                       LET js == {j \in 1..nnz(shape) : indices.out[j] = i - 1}
                       IN  IF js = {} THEN Real("0.0")
                           ELSE Real(vals.out[CHOOSE j \in js : \A k \in js : k <= j])]
         IN  [raised |-> FALSE, rng |-> vals.rng,
              value |-> Tensor(shape, "elements", put)]

\* strategy == "ill_conditioned" on a square shape:
\* data = u @ np.diag(s) @ u.T with s = np.logspace(-15, 0, n); the product is
\* a function of u alone, and is kept as its factor u
gen_ill_conditioned(s, shape) ==
    LET u == standard_normal(s, <<shape[1], shape[1]>>)
    IN  [raised |-> FALSE, rng |-> u.rng,
         value |-> Tensor(shape, "u diag(s) u.T",
                          [i \in 1..Len(u.out) |-> Real(u.out[i])])]

\* data = self.rng.standard_normal(shape): both else branches
gen_real(s, shape) ==
    LET a == standard_normal(s, shape)
    IN  [raised |-> FALSE, rng |-> a.rng,
         value |-> Tensor(shape, "elements",
                          [i \in 1..Len(a.out) |-> Real(a.out[i])])]

\* len(shape) == 2 and shape[0] == shape[1]
IsSquare(shape) == Len(shape) = 2 /\ shape[1] = shape[2]

\* a dispatch whose ill_conditioned branch falls back to the normal strategy
generate_falls_back_to_normal(s, shape, strategy) ==
    IF strategy = "normal" THEN gen_normal(s, shape)
    ELSE IF strategy = "boundary" THEN gen_boundary(s, shape)
    ELSE IF strategy = "sparse" THEN gen_sparse(s, shape)
    ELSE IF strategy = "ill_conditioned" THEN
        IF IsSquare(shape) THEN gen_ill_conditioned(s, shape)
        ELSE gen_normal(s, shape)
    ELSE gen_real(s, shape)

\* the body of random_tensor after the counter update: the data generated from
\* random-source state s, the state the source is left in, and whether the
\* generation raised
generate(s, shape, strategy) ==
    IF strategy = "normal" THEN gen_normal(s, shape)
    ELSE IF strategy = "boundary" THEN gen_boundary(s, shape)
    ELSE IF strategy = "sparse" THEN gen_sparse(s, shape)
    ELSE IF strategy = "ill_conditioned" THEN
        IF IsSquare(shape) THEN gen_ill_conditioned(s, shape)
        ELSE gen_real(s, shape)
    ELSE gen_real(s, shape)

\* a random_tensor that counts the attempt once the data has been generated
random_tensor_counts_last(self, shape, strategy) ==
    LET g == generate(self.rng, shape, strategy)
    IN  [self |-> IF g.raised THEN self
                  ELSE [self EXCEPT !.attempts = self.attempts + 1, !.rng = g.rng],
         raised |-> g.raised, value |-> g.value]

\* random_tensor(self, shape, dtype, strategy): self.attempts += 1 comes first,
\* so the counter is updated whether or not the generation then raises
random_tensor(self, shape, strategy) ==
    LET g == generate(self.rng, shape, strategy)
    IN  [self |-> [self EXCEPT !.attempts = self.attempts + 1, !.rng = g.rng],
         raised |-> g.raised, value |-> g.value]

\* a record_failure that draws from the random source (say, for a failure id)
record_failure_draws(self) ==
    [self |-> [self EXCEPT !.failures = self.failures + 1, !.rng = rngNext(self.rng)],
     raised |-> FALSE, value |-> "None"]

\* record_failure(self, details)
record_failure(self) ==
    [self |-> [self EXCEPT !.failures = self.failures + 1],
     raised |-> FALSE, value |-> "None"]

\* record_near_miss(self, details)
record_near_miss(self) ==
    [self |-> [self EXCEPT !.near_misses = self.near_misses + 1],
     raised |-> FALSE, value |-> "None"]

\* max(1, self.attempts)
Max1(n) == IF n > 1 THEN n ELSE 1

\* the dict report returns; the quotient success_rate is kept as numerator and
\* denominator
Summary(self, conclusion) ==
    [total_attempts |-> self.attempts,
     failures |-> self.failures,
     near_misses |-> self.near_misses,
     success_rate |-> <<self.attempts - self.failures, Max1(self.attempts)>>,
     conclusion |-> conclusion]

\* a report that starts a new count once it has summarised the old one
report_resets(self) ==
    [self |-> [self EXCEPT !.attempts = 0, !.failures = 0, !.near_misses = 0],
     raised |-> FALSE,
     value |-> Summary(self, IF self.failures = 0 THEN "PASS" ELSE "FAIL")]

\* a report that concludes from the success rate: PASS when every attempt held
report_by_rate(self) ==
    [self |-> self, raised |-> FALSE,
     value |-> Summary(self, IF self.attempts > 0 /\ self.failures = 0
                             THEN "PASS" ELSE "FAIL")]

\* report(self)
report(self) ==
    [self |-> self, raised |-> FALSE,
     value |-> Summary(self, IF self.failures = 0 THEN "PASS" ELSE "FAIL")]

\* the artifacts a caller has been handed so far
Returned(log, r) == IF r.raised THEN log ELSE Append(log, r.value)

\* One random_tensor call, whenever it is made.  The twin is a second AdversarialAttacker built from
\* the same seed that is given the same random_tensor calls and no others.
RandomTensorCall(shape, strategy) ==
    /\ LET r == random_tensor(attacker, shape, strategy)
           t == random_tensor(twin, shape, strategy)
       IN  /\ attacker' = r.self
           /\ artifacts' = Returned(artifacts, r)
           /\ twin' = t.self
           /\ twinArtifacts' = Returned(twinArtifacts, t)
           /\ ret' = [op |-> "random_tensor", shape |-> shape, strategy |-> strategy,
                      raised |-> r.raised, value |-> r.value]
    /\ UNCHANGED <<ledgerVars, comparatorVars, workerVars>>

RandomTensor(shape, strategy) ==
    /\ attacker.attempts < MaxAttempts
    /\ RandomTensorCall(shape, strategy)

RecordFailure ==
    /\ attacker.failures < MaxFailures
    /\ LET r == record_failure(attacker)
       IN  /\ attacker' = r.self
           /\ ret' = [op |-> "record_failure", raised |-> r.raised, value |-> r.value]
    /\ UNCHANGED <<ledgerVars, twin, artifacts, twinArtifacts, comparatorVars,
                   workerVars>>

RecordNearMiss ==
    /\ attacker.near_misses < MaxNearMisses
    /\ LET r == record_near_miss(attacker)
       IN  /\ attacker' = r.self
           /\ ret' = [op |-> "record_near_miss", raised |-> r.raised, value |-> r.value]
    /\ UNCHANGED <<ledgerVars, twin, artifacts, twinArtifacts, comparatorVars,
                   workerVars>>

Report ==
    /\ LET r == report(attacker)
       IN  /\ attacker' = r.self
           /\ ret' = [op |-> "report", raised |-> r.raised, value |-> r.value]
    /\ UNCHANGED <<ledgerVars, twin, artifacts, twinArtifacts, comparatorVars,
                   workerVars>>

\* ========================================================= specifications

NoCall == [op |-> "none"]

\* a session that compares nothing and runs no parallel workers
NoComparison == pending = NoCall

NoWorkers == workers = <<>> /\ trackers = <<>> /\ attackers = <<>>

\* a session that uses the ledger: VerificationTracker()
InitLedger ==
    /\ results = TrackerInit
    /\ calls = <<>>
    /\ attacker = AttackerInit(DEFAULT_SEED)
    /\ twin = AttackerInit(DEFAULT_SEED)
    /\ artifacts = <<>>
    /\ twinArtifacts = <<>>
    /\ ret = NoCall
    /\ NoComparison
    /\ NoWorkers

NextLedger ==
    \/ \E target \in Targets, level \in Levels, challenger \in Challengers,
          passed \in BOOLEAN, details \in DetailsArgs, timestamp \in Timestamps :
          Record(target, level, challenger, passed, details, timestamp)
    \/ \E target \in Targets : GetLevel(target)
    \/ Export

SpecLedger == InitLedger /\ [][NextLedger]_vars

\* a session that uses the generator: AdversarialAttacker(seed), and its twin
InitAttacker ==
    /\ results = TrackerInit
    /\ calls = <<>>
    /\ \E seed \in Seeds :
          /\ attacker = AttackerInit(seed)
          /\ twin = AttackerInit(seed)
    /\ artifacts = <<>>
    /\ twinArtifacts = <<>>
    /\ ret = NoCall
    /\ NoComparison
    /\ NoWorkers

NextAttacker ==
    \/ \E shape \in Shapes, strategy \in Strategies : RandomTensor(shape, strategy)
    \/ RecordFailure
    \/ RecordNearMiss
    \/ Report

SpecAttacker == InitAttacker /\ [][NextAttacker]_vars

\* ================================================================ ledger claims

\* the record calls made so far for one target, in call order
CallsFor(t) == SelectSeq(calls, LAMBDA c : c.target = t)

\* the level argument of the last call of cs with passed = TRUE, else L0
RECURSIVE LastPassingLevel(_)
LastPassingLevel(cs) ==
    IF cs = <<>> THEN "L0"
    ELSE IF cs[Len(cs)].passed THEN cs[Len(cs)].level
    ELSE LastPassingLevel(SubSeq(cs, 1, Len(cs) - 1))

\* the history of a target, empty when the target has no record
HistoryOf(res, t) == IF t \in DOMAIN res THEN res[t].history ELSE <<>>

\* the levels of the passing entries of a target's history
PassingLevels(res, t) ==
    {HistoryOf(res, t)[i].level : i \in {j \in 1..Len(HistoryOf(res, t)) :
                                            HistoryOf(res, t)[j].passed}}

IsPrefix(a, b) == Len(a) <= Len(b) /\ SubSeq(b, 1, Len(a)) = a

\* C1: for every target, get_level is the level argument of the most recent
\* record call for that target with passed = TRUE, and L0 when there is none
\* (so a failed record leaves it alone and a later lower pass lowers it).
C1_MostRecentPass ==
    \A t \in Targets : get_level(results, t) = LastPassingLevel(CallsFor(t))

\* C1 witness: a target passed at a higher level and then at a lower one, and
\* get_level is the lower level.
C1_Witness ==
    \E t \in Targets :
        /\ Len(CallsFor(t)) = 2
        /\ CallsFor(t)[1].passed /\ CallsFor(t)[2].passed
        /\ LevelRank[CallsFor(t)[1].level] > LevelRank[CallsFor(t)[2].level]
        /\ get_level(results, t) = CallsFor(t)[2].level

\* C2: get_level of a target never ranks above the highest level of a passing
\* entry of its history, and a get_level other than L0 is the level of some
\* passing entry of that history.
C2_LevelBackedByPass ==
    \A t \in Targets :
        /\ \/ get_level(results, t) = "L0"
           \/ \E l \in PassingLevels(results, t) :
                 LevelRank[get_level(results, t)] <= LevelRank[l]
        /\ get_level(results, t) # "L0" => get_level(results, t) \in PassingLevels(results, t)

\* C2 witness: a target whose current level is not L0 and lies strictly below
\* its highest passing level.
C2_Witness ==
    \E t \in Targets :
        /\ get_level(results, t) # "L0"
        /\ \E l \in PassingLevels(results, t) :
              LevelRank[get_level(results, t)] < LevelRank[l]

\* the (level, challenger, passed, details) of a history entry
EntryArgs(e) ==
    [level |-> e.level, challenger |-> e.challenger, passed |-> e.passed,
     details |-> e.details]

\* the (level, challenger, passed, details) of a call, as passed
PassedArgs(c) ==
    [level |-> c.level, challenger |-> c.challenger, passed |-> c.passed,
     details |-> c.details]

\* ... and with a details argument of None read as the empty mapping
StoredArgs(c) ==
    [level |-> c.level, challenger |-> c.challenger, passed |-> c.passed,
     details |-> IF c.details = "None" THEN "{}" ELSE c.details]

Map(f(_), seq) == [i \in 1..Len(seq) |-> f(seq[i])]

\* C3 as stated: every target's history is exactly the sequence of the
\* (level, challenger, passed, details) arguments of its record calls.
C3_HistoryIsExactlyTheArguments ==
    \A t \in Targets :
        Map(EntryArgs, HistoryOf(results, t)) = Map(PassedArgs, CallsFor(t))

\* C3 amended: every target's history is the sequence of the (level,
\* challenger, passed, details) arguments of its record calls in call order,
\* a details argument of None being stored as the empty mapping; a target has
\* a record exactly when record was called for it; and no step removes,
\* reorders or alters an entry or a record that exists.
C3_HistoryAppendOnly ==
    /\ [](\A t \in Targets :
            /\ Map(EntryArgs, HistoryOf(results, t)) = Map(StoredArgs, CallsFor(t))
            /\ t \in DOMAIN results <=> CallsFor(t) # <<>>)
    /\ [][\A t \in DOMAIN results :
            /\ t \in DOMAIN results'
            /\ IsPrefix(results[t].history, results'[t].history)]_vars

\* C3 witness: a target with two entries, the first recorded with details None,
\* read back by an export.
C3_Witness ==
    /\ ret.op = "export"
    /\ \E t \in Targets :
          /\ Len(HistoryOf(results, t)) = 2
          /\ CallsFor(t)[1].details = "None"
          /\ CallsFor(t)[1].level # CallsFor(t)[2].level

\* C8 as stated: every target with a record, and every target of an exported
\* document, has both a history and a current_level field.
C8_BothFieldsPresent ==
    /\ \A t \in DOMAIN results :
          {"history", "current_level"} \subseteq DOMAIN results[t]
    /\ ret.op = "export" =>
          \A t \in DOMAIN ret.doc :
              {"history", "current_level"} \subseteq DOMAIN ret.doc[t]

\* C9: a get_level call for a target that has no record returns L0 and leaves
\* the ledger as it was: no record is created, no other target is touched.
C9_UnknownTargetIsL0 ==
    [][(ret'.op = "get_level" /\ ret'.target \notin DOMAIN results) =>
          (ret'.value = "L0" /\ results' = results)]_vars

\* C9 witness: get_level has just answered L0 for a target without a record
\* while another target has one above L0.
C9_Witness ==
    /\ ret.op = "get_level"
    /\ ret.target \notin DOMAIN results
    /\ ret.value = "L0"
    /\ \E t \in DOMAIN results : get_level(results, t) # "L0"

\* C17: a record call leaves every other target as it was (its history, its
\* current level, whether it has a record at all); a target gets a record only
\* by a record call for that very target, and no step removes a record.
C17_RecordTouchesOnlyItsTarget ==
    [][/\ DOMAIN results \subseteq DOMAIN results'
       /\ ret'.op # "record" => results' = results
       /\ ret'.op = "record" =>
             /\ DOMAIN results' = DOMAIN results \cup {ret'.target}
             /\ \A t \in Targets \ {ret'.target} :
                   /\ t \in DOMAIN results' <=> t \in DOMAIN results
                   /\ t \in DOMAIN results => results'[t] = results[t]
                   /\ get_level(results', t) = get_level(results, t)
                   /\ HistoryOf(results', t) = HistoryOf(results, t)]_vars

\* C17 witness: a first record for one target, made while another target
\* already has a history and a level above L0.
C17_Witness ==
    /\ ret.op = "record"
    /\ Len(HistoryOf(results, ret.target)) = 1
    /\ \E t \in DOMAIN results \ {ret.target} :
          /\ Len(HistoryOf(results, t)) = 1
          /\ get_level(results, t) # "L0"

\* ============================================================= attacker claims

\* C4 as stated: attempts >= failures in every reachable state.
C4_AttemptsAtLeastFailures == attacker.attempts >= attacker.failures

\* C5: the three counters start at 0 and no step ever lowers one of them.
C5_CountersNeverDecrease ==
    /\ attacker.attempts = 0 /\ attacker.failures = 0 /\ attacker.near_misses = 0
    /\ [][/\ attacker'.attempts >= attacker.attempts
          /\ attacker'.failures >= attacker.failures
          /\ attacker'.near_misses >= attacker.near_misses]_vars

\* C5 witness: a report made when all three counters have been raised.
C5_Witness ==
    /\ ret.op = "report"
    /\ attacker.attempts > 0 /\ attacker.failures > 0 /\ attacker.near_misses > 0

\* C6: every random_tensor call, whatever the strategy and whether or not the
\* generation raises, adds exactly 1 to attempts and leaves failures and
\* near_misses alone.
C6_GenerateCountsOnce ==
    [][ret'.op = "random_tensor" =>
          /\ attacker'.attempts = attacker.attempts + 1
          /\ attacker'.failures = attacker.failures
          /\ attacker'.near_misses = attacker.near_misses]_vars

\* C6 witness: a random_tensor call that raised after other calls had been
\* counted.
C6_Witness ==
    /\ ret.op = "random_tensor" /\ ret.raised
    /\ attacker.attempts = 2 /\ attacker.failures > 0

\* C7: two attackers built from the same seed and given the same random_tensor
\* calls have returned the same artifacts and hold the same random-source
\* state, whatever record_failure, record_near_miss and report calls went to
\* one of them in between.
C7_SameSeedSameArtifacts ==
    /\ artifacts = twinArtifacts
    /\ attacker.rng = twin.rng

\* C7 witness: two artifacts returned, the last one after failures and near
\* misses were recorded on one attacker only.
C7_Witness ==
    /\ ret.op = "random_tensor"
    /\ Len(artifacts) = 2 /\ artifacts[1] # artifacts[2]
    /\ attacker.failures > twin.failures
    /\ attacker.near_misses > twin.near_misses

\* C10: a report call changes nothing of the attacker, returns the current
\* values of the three counters, and concludes PASS exactly when failures = 0.
C10_ReportIsPureRead ==
    [][ret'.op = "report" =>
          /\ attacker' = attacker
          /\ ret'.value.total_attempts = attacker.attempts
          /\ ret'.value.failures = attacker.failures
          /\ ret'.value.near_misses = attacker.near_misses
          /\ ret'.value.conclusion \in {"PASS", "FAIL"}
          /\ ret'.value.conclusion = "PASS" <=> attacker.failures = 0]_vars

\* C10 witness: a report on a fresh session, with no attempt made, is PASS.
C10_Witness ==
    /\ ret.op = "report"
    /\ attacker.attempts = 0
    /\ ret.value.conclusion = "PASS"

\* ======================================================== generation trials

\* the shapes of the trials: 1 to 100 elements, one- and two-dimensional
TrialShapes == {<<1>>, <<10>>, <<16>>, <<4, 4>>, <<2, 3>>, <<100>>}

\* an attacker built from any seed, then random_tensor on a trial shape
InitTrial ==
    /\ results = TrackerInit
    /\ calls = <<>>
    /\ \E seed \in 0..(RngMod - 1) :
          /\ attacker = AttackerInit(seed)
          /\ twin = AttackerInit(seed)
    /\ artifacts = <<>>
    /\ twinArtifacts = <<>>
    /\ ret = NoCall
    /\ NoComparison
    /\ NoWorkers

Trial(shape, strategy) ==
    /\ attacker.attempts < MaxTrials
    /\ RandomTensorCall(shape, strategy)

NextTrial == \E shape \in TrialShapes, strategy \in Strategies : Trial(shape, strategy)

SpecTrial == InitTrial /\ [][NextTrial]_vars

\* the flat positions of a tensor that hold a value other than zero
NonZeroPositions(tensor) ==
    {i \in 1..Len(tensor.data) :
        tensor.data[i].re # "0.0" \/ tensor.data[i].im # "0.0"}

\* C11 as stated: a sparse tensor of at least one element has exactly
\* max(1, round(0.1 * total_elements)) positions that are not zero.
C11_SparseCountRounded ==
    (ret.op = "random_tensor" /\ ret.strategy = "sparse" /\ prod(ret.shape) >= 1) =>
        /\ ~ret.raised
        /\ Len(ret.value.data) = prod(ret.shape)
        /\ Cardinality(NonZeroPositions(ret.value)) = AtLeast1(RoundTenth(prod(ret.shape)))

\* C11 amended: a sparse tensor of at least one element has exactly
\* max(1, floor(0.1 * total_elements)) positions that are not zero, the others
\* being zero: 10 of them for shape (100,), 1 for shape (16,).
C11_SparseCountTruncated ==
    (ret.op = "random_tensor" /\ ret.strategy = "sparse" /\ prod(ret.shape) >= 1) =>
        /\ ~ret.raised
        /\ Len(ret.value.data) = prod(ret.shape)
        /\ Cardinality(NonZeroPositions(ret.value)) = AtLeast1(FloorTenth(prod(ret.shape)))
        /\ \A i \in NonZeroPositions(ret.value) : ret.value.data[i].im = "0.0"

\* C11 witness: a sparse tensor of 16 elements with a single position set,
\* where rounding would have set two.
C11_Witness ==
    /\ ret.op = "random_tensor" /\ ret.strategy = "sparse"
    /\ ret.shape = <<16>>
    /\ Cardinality(NonZeroPositions(ret.value)) = 1
    /\ AtLeast1(RoundTenth(16)) = 2

\* C12 as stated: on a shape that is not square, ill_conditioned returns what
\* normal returns from the same random-source state and leaves the source in
\* the same state.
C12_FallbackIsNormal ==
    [][(ret'.op = "random_tensor" /\ ret'.strategy = "ill_conditioned"
            /\ ~IsSquare(ret'.shape)) =>
          /\ ret'.value = random_tensor(attacker, ret'.shape, "normal").value
          /\ attacker'.rng = random_tensor(attacker, ret'.shape, "normal").self.rng]_vars

\* C12 amended: on a shape that is not square, ill_conditioned returns what an
\* unrecognised strategy returns: real parts drawn from the standard normal
\* distribution, one draw per element, imaginary parts zero, the random
\* source advanced by one draw per element.
C12_FallbackIsRealNormal ==
    [][(ret'.op = "random_tensor" /\ ret'.strategy = "ill_conditioned"
            /\ ~IsSquare(ret'.shape)) =>
          /\ ~ret'.raised
          /\ ret'.value.shape = ret'.shape
          /\ Len(ret'.value.data) = prod(ret'.shape)
          /\ \A i \in 1..prod(ret'.shape) :
                /\ ret'.value.data[i].re = NormalSample(rngAfter(attacker.rng, i))
                /\ ret'.value.data[i].im = "0.0"
          /\ attacker'.rng = rngAfter(attacker.rng, prod(ret'.shape))
          /\ ret'.value = random_tensor(attacker, ret'.shape, "typo").value]_vars

\* C12 witness: an ill_conditioned tensor of shape (2, 3), all of its imaginary
\* parts zero, where normal gives another tensor.
C12_Witness ==
    /\ ret.op = "random_tensor" /\ ret.strategy = "ill_conditioned"
    /\ ret.shape = <<2, 3>>
    /\ \A i \in 1..6 : ret.value.data[i].im = "0.0"
    /\ \E seed \in 0..(RngMod - 1) :
          /\ ret.value = gen_real(default_rng(seed), <<2, 3>>).value
          /\ ret.value # gen_normal(default_rng(seed), <<2, 3>>).value

\* ================================================= equivalence assertions

\* at most this many elements in a compared vector
VecLen == 2

\* An element of a complex128 tensor is kept exactly, as (re + im i) / den with
\* den > 0; den = 0 is nan, what 0 / 0 gives.
Cx(re, im) == [re |-> re, im |-> im, den |-> 1]

NaN == [re |-> 0, im |-> 0, den |-> 0]

IsNaN(x) == x.den = 0

Abs(n) == IF n < 0 THEN -n ELSE n

RECURSIVE GCD(_, _)
GCD(a, b) == IF b = 0 THEN a ELSE GCD(b, a % b)

RECURSIVE Pow10(_)
Pow10(e) == IF e = 0 THEN 1 ELSE 10 * Pow10(e - 1)

\* 10^e > n, for n >= 0, without forming 10^e
RECURSIVE Pow10Exceeds(_, _)
Pow10Exceeds(e, n) == IF e = 0 THEN n = 0 ELSE Pow10Exceeds(e - 1, n \div 10)

\* (re + im i) / den in lowest terms; a zero divided by zero is nan (a
\* vector of norm zero has only zeros to divide)
Quotient(re, im, den) ==
    IF den = 0 THEN NaN
    ELSE LET g == GCD(GCD(Abs(re), Abs(im)), den)
         IN  [re |-> re \div g, im |-> im \div g, den |-> den \div g]

\* a tolerance m * 10^-e
Tol(m, e) == [m |-> m, e |-> e]

\* DEFAULT_RTOL = 1e-10
DEFAULT_RTOL == Tol(1, 10)

\* DEFAULT_ATOL = 1e-12
DEFAULT_ATOL == Tol(1, 12)

Zero == Tol(0, 0)

One == Tol(1, 0)

Tenth == Tol(1, 1)

\* x.conj()
conj(x) == [x EXCEPT !.im = -x.im]

\* the product of two complex integers
times(x, y) == Cx(x.re * y.re - x.im * y.im, x.re * y.im + x.im * y.re)

\* the scalar multiple c * v of a vector of complex integers
scale(c, v) == [i \in 1..Len(v) |-> times(c, v[i])]

\* torch.linalg.norm(v), squared: the sum of |v[i]|^2
RECURSIVE norm2(_)
norm2(v) ==
    IF v = <<>> THEN 0
    ELSE Head(v).re * Head(v).re + Head(v).im * Head(v).im + norm2(Tail(v))

\* a vector that is left as it came, not divided by its norm
normalize_skipped(v) == [num |-> v, norm2 |-> 1]

\* v / torch.linalg.norm(v): the elements and the square of the norm that
\* divides every one of them; there is no test for a norm of zero
normalize(v) == [num |-> v, norm2 |-> norm2(v)]

\* v.conj() of a normalised vector
vconj(n) == [n EXCEPT !.num = [i \in 1..Len(n.num) |-> conj(n.num[i])]]

\* torch.outer(a, b), flat and row by row, for two vectors divided by the same
\* norm: element (i, j) is a[i] * b[j] over the square of that norm
outer(a, b) ==
    [k \in 1..(Len(a.num) * Len(b.num)) |->
        LET i == ((k - 1) \div Len(b.num)) + 1
            j == ((k - 1) % Len(b.num)) + 1
            p == times(a.num[i], b.num[j])
        IN  Quotient(p.re, p.im, a.norm2)]

\* an outer product of the vector with itself, not with its conjugate
projector_plain(n) == outer(n, n)

\* torch.outer(v, v.conj())
projector(n) == outer(n, vconj(n))

\* |x|^2 >= |y|^2 for two numbers that are not nan
AbsAtLeast(x, y) ==
    (x.re * x.re + x.im * x.im) * y.den * y.den
        >= (y.re * y.re + y.im * y.im) * x.den * x.den

\* |a - b| <= atol + rtol * |ref|, decided exactly.  With |a - b| = sqrt(G) / Q
\* and |ref| = sqrt(H) / ref.den: a nan never compares close; G = 0 is close
\* under every tolerance; a difference is at least 1 / Q and the right-hand
\* side at most (atol.m + rtol.m * H) / 10^e for the smaller exponent e, which
\* settles the tolerances far below the difference; what is left is decided by
\* squaring sqrt(X2) <= P + sqrt(S2).
within(a, b, ref, rtol, atol) ==
    IF IsNaN(a) \/ IsNaN(b) THEN FALSE
    ELSE LET dr == a.re * b.den - b.re * a.den
             di == a.im * b.den - b.im * a.den
             G == dr * dr + di * di
             Q == a.den * b.den
             H == ref.re * ref.re + ref.im * ref.im
             e == IF atol.m = 0 THEN rtol.e
                  ELSE IF rtol.m = 0 THEN atol.e
                  ELSE IF rtol.e < atol.e THEN rtol.e ELSE atol.e
             E == IF rtol.e > atol.e THEN rtol.e ELSE atol.e
             X2 == Pow10(E) * ref.den * Pow10(E) * ref.den * G
             P == Q * ref.den * atol.m * Pow10(E - atol.e)
             S2 == Q * rtol.m * Pow10(E - rtol.e) * Q * rtol.m * Pow10(E - rtol.e) * H
             L == X2 + P * P - S2
         IN  IF G = 0 THEN TRUE
             ELSE IF Pow10Exceeds(e, Q * (atol.m + rtol.m * H)) THEN FALSE
             ELSE IF X2 <= P * P THEN TRUE
             ELSE IF S2 = 0 THEN FALSE
             ELSE IF L <= 0 THEN TRUE
             ELSE P > 0 /\ L * L <= 4 * P * P * X2

\* a closeness relative to the larger of the two moduli
close_elem_symmetric(a, b, rtol, atol) ==
    IF IsNaN(a) \/ IsNaN(b) THEN FALSE
    ELSE within(a, b, IF AbsAtLeast(a, b) THEN a ELSE b, rtol, atol)

\* one element of torch.allclose(actual, expected, rtol, atol):
\* |actual - expected| <= atol + rtol * |expected|, and nan is close to nothing
close_elem(a, b, rtol, atol) == within(a, b, b, rtol, atol)

\* torch.allclose(actual, expected, rtol=rtol, atol=atol)
allclose(actual, expected, rtol, atol) ==
    \A k \in 1..Len(actual) : close_elem(actual[k], expected[k], rtol, atol)

\* assert_close(actual, expected, rtol, atol)
assert_close(actual, expected, rtol, atol) ==
    IF ~allclose(actual, expected, rtol, atol)
    THEN [raised |-> TRUE, value |-> "AssertionError", msg |-> "Tensors not close"]
    ELSE [raised |-> FALSE, value |-> "None", msg |-> ""]

\* assert_eigenvector_equivalent(v_actual, v_expected, rtol, atol)
assert_eigenvector_equivalent(v_actual, v_expected, rtol, atol) ==
    LET a == normalize(v_actual)
        b == normalize(v_expected)
    IN  assert_close(projector(a), projector(b), rtol, atol)

\* the elements of the compared vectors, complex integers
Components == {Cx(0, 0), Cx(1, 0), Cx(0, 1), Cx(1, 1)}

Vectors == [1..VecLen -> Components]

\* the scalars a vector is multiplied by; those of modulus 1 are 1, -1, i, -i
Scalars == {Cx(1, 0), Cx(-1, 0), Cx(0, 1), Cx(0, -1), Cx(2, 0), Cx(3, 0), Cx(1, 1)}

UnitScalars == {u \in Scalars : u.re * u.re + u.im * u.im = 1}

\* the (rtol, atol) pairs of the calls
TolPairs == {<<Zero, Zero>>, <<DEFAULT_RTOL, DEFAULT_ATOL>>, <<One, Zero>>,
             <<Zero, Tenth>>}

\* ... and one more for the tensors handed to assert_close
CloseTolPairs == TolPairs \cup {<<Tenth, Tenth>>}

CloseValues == {Cx(0, 0), Cx(1, 0), Cx(10, 0), Cx(0, 1), Quotient(1, 0, 2), NaN}

\* the tensors handed to assert_close: of one element, and of two
CloseTensors == {<<x>> : x \in CloseValues} \cup {<<Cx(1, 0), x>> : x \in CloseValues}

Call(fn, actual, expected, tol) ==
    [op |-> fn, actual |-> actual, expected |-> expected,
     rtol |-> tol[1], atol |-> tol[2]]

\* the calls of a comparison session: a vector against a multiple of itself or
\* against another vector, a tensor against a tensor of its shape
ComparatorCalls ==
    {Call("assert_eigenvector_equivalent", v, w, tol) :
        v \in Vectors, w \in Vectors \cup {scale(c, u) : c \in Scalars, u \in Vectors},
        tol \in TolPairs}
    \cup {c \in {Call("assert_close", a, b, tol) :
                    a \in CloseTensors, b \in CloseTensors, tol \in CloseTolPairs} :
             Len(c.actual) = Len(c.expected)}

\* what the caller of an assertion sees: the call and how it ended
Outcome(call, r) ==
    [op |-> call.op, actual |-> call.actual, expected |-> call.expected,
     rtol |-> call.rtol, atol |-> call.atol,
     raised |-> r.raised, value |-> r.value, msg |-> r.msg]

AssertClose ==
    /\ pending.op = "assert_close"
    /\ ret' = Outcome(pending, assert_close(pending.actual, pending.expected,
                                            pending.rtol, pending.atol))
    /\ pending' = NoCall
    /\ UNCHANGED <<ledgerVars, attackerVars, workerVars>>

AssertEigenvectorEquivalent ==
    /\ pending.op = "assert_eigenvector_equivalent"
    /\ ret' = Outcome(pending,
                      assert_eigenvector_equivalent(pending.actual, pending.expected,
                                                    pending.rtol, pending.atol))
    /\ pending' = NoCall
    /\ UNCHANGED <<ledgerVars, attackerVars, workerVars>>

InitComparator ==
    /\ results = TrackerInit
    /\ calls = <<>>
    /\ attacker = AttackerInit(DEFAULT_SEED)
    /\ twin = AttackerInit(DEFAULT_SEED)
    /\ artifacts = <<>>
    /\ twinArtifacts = <<>>
    /\ ret = NoCall
    /\ pending \in ComparatorCalls
    /\ NoWorkers

NextComparator ==
    \/ AssertClose
    \/ AssertEigenvectorEquivalent

SpecComparator == InitComparator /\ [][NextComparator]_vars

\* ---------------------------------------------------------- comparator claims

IsEigenvectorCall == ret.op = "assert_eigenvector_equivalent"

\* C13 as stated: with a vector of norm zero on either side the comparison
\* fails with the error kind ZeroNorm, never with a value mismatch.
C13_ZeroNormIsReported ==
    (IsEigenvectorCall /\ (norm2(ret.actual) = 0 \/ norm2(ret.expected) = 0)) =>
        ret.raised /\ ret.value = "ZeroNorm"

\* C14: a vector that is not zero compared against u times itself, u one of
\* 1, -1, i, -i, passes under every tolerance, rtol = atol = 0 included: the
\* two projectors are the same tensor.
C14_PhaseInvariant ==
    (IsEigenvectorCall /\ norm2(ret.actual) # 0
        /\ \E u \in UnitScalars : ret.expected = scale(u, ret.actual)) =>
        /\ ~ret.raised
        /\ projector(normalize(ret.actual)) = projector(normalize(ret.expected))

\* C14 witness: (1, 1+i, ...) against i times itself passes at rtol = atol = 0.
C14_Witness ==
    /\ IsEigenvectorCall
    /\ ret.actual[1] = Cx(1, 0) /\ ret.actual[2] = Cx(1, 1)
    /\ ret.expected = scale(Cx(0, 1), ret.actual)
    /\ ret.expected # ret.actual
    /\ ret.rtol = Zero /\ ret.atol = Zero
    /\ ~ret.raised

\* the scalars of a modulus other than 0 and 1
NonUnitScalars == {c \in Scalars : c.re * c.re + c.im * c.im > 1}

\* C15 as stated: at the default tolerances a vector that is not zero
\* compared against c times itself, |c| other than 0 and 1, fails.
C15_ScalingDetected ==
    (IsEigenvectorCall /\ norm2(ret.actual) # 0
        /\ ret.rtol = DEFAULT_RTOL /\ ret.atol = DEFAULT_ATOL
        /\ \E c \in NonUnitScalars : ret.expected = scale(c, ret.actual)) =>
        ret.raised

\* C15 amended: at the default tolerances a vector that is not zero compared
\* against c times itself passes for every scalar c other than 0, whatever
\* its modulus: both sides are divided by their norm before they are compared.
C15_ScalingIgnored ==
    (IsEigenvectorCall /\ norm2(ret.actual) # 0
        /\ ret.rtol = DEFAULT_RTOL /\ ret.atol = DEFAULT_ATOL
        /\ \E c \in Scalars : ret.expected = scale(c, ret.actual)) =>
        /\ ~ret.raised
        /\ projector(normalize(ret.actual)) = projector(normalize(ret.expected))

\* C15 witness: (1, 1+i, ...) against 2 times itself passes at the default
\* tolerances.
C15_Witness ==
    /\ IsEigenvectorCall
    /\ ret.actual[1] = Cx(1, 0) /\ ret.actual[2] = Cx(1, 1)
    /\ ret.expected = scale(Cx(2, 0), ret.actual)
    /\ norm2(ret.expected) = 4 * norm2(ret.actual)
    /\ ret.rtol = DEFAULT_RTOL /\ ret.atol = DEFAULT_ATOL
    /\ ~ret.raised

IsCloseCall == ret.op = "assert_close"

\* the same call with actual and expected exchanged
Exchanged == assert_close(ret.expected, ret.actual, ret.rtol, ret.atol)

\* C16: assert_close of a tensor without nan against itself passes under
\* every tolerance; the rule is directional: some call passes where the call
\* with the arguments exchanged fails, and that happens only with rtol > 0
\* and an element of actual smaller in modulus than the one of expected.
C16_ReflexiveButDirectional ==
    /\ (IsCloseCall /\ ret.actual = ret.expected
            /\ \A k \in 1..Len(ret.actual) : ~IsNaN(ret.actual[k])) => ~ret.raised
    /\ (IsCloseCall /\ ~ret.raised /\ Exchanged.raised) =>
          /\ ret.rtol.m > 0
          /\ \E k \in 1..Len(ret.actual) :
                ~AbsAtLeast(ret.actual[k], ret.expected[k])
    /\ \E a \in CloseTensors, b \in CloseTensors, tol \in TolPairs :
          /\ Len(a) = Len(b)
          /\ ~assert_close(a, b, tol[1], tol[2]).raised
          /\ assert_close(b, a, tol[1], tol[2]).raised

\* C16 witness: 1 against 10 passes at rtol = 1, atol = 0, and 10 against 1
\* fails.
C16_Witness ==
    /\ IsCloseCall
    /\ ret.actual = <<Cx(1, 0)>> /\ ret.expected = <<Cx(10, 0)>>
    /\ ret.rtol = One /\ ret.atol = Zero
    /\ ~ret.raised
    /\ Exchanged.raised

\* ======================================================== parallel workers

\* at most this many calls by one worker
MaxWorkerCalls == 2

\* Two test workers call record and random_tensor with no lock around the
\* calls, so the statements of a call are steps that interleave with the
\* steps of the other worker.  A worker either has instances of its own or
\* uses the instances every worker uses.
Workers == {"w1", "w2"}

Modes == {"shared", "own"}

WorkerLevels == {"L1"}

WorkerShapes == {<<2>>}

WorkerStrategies == {"normal"}

\* a session that hands every worker the same instances
instance_always_shared(mode, w) == "shared"

\* the instances a worker uses: VerificationTracker() and AdversarialAttacker()
\* are built once for all workers, or once by each worker
instance_of(mode, w) == IF mode = "shared" THEN "shared" ELSE w

Instances(mode) == {instance_of(mode, w) : w \in Workers}

\* a worker between two calls; recorded and generated count the calls it has
\* made, args are those of the call it is in
WorkerInit(mode, w) ==
    [mode |-> mode, inst |-> instance_of(mode, w), pc |-> "idle", made |-> 0,
     recorded |-> [t \in Targets |-> 0], generated |-> 0,
     args |-> NoCall, read |-> 0]

\* self.results[target] = {"history": []}: the assignment replaces whatever
\* the key holds
store_empty_record(res, target) ==
    [t \in DOMAIN res \cup {target} |->
        IF t = target THEN [history |-> <<>>] ELSE res[t]]

Idle(w) == [workers[w] EXCEPT !.pc = "idle", !.args = NoCall, !.read = 0]

\* record, first statement: `target not in self.results` is evaluated
RecordCheck(w, target, level, passed) ==
    /\ workers[w].pc = "idle"
    /\ workers[w].made < MaxWorkerCalls
    /\ workers' = [workers EXCEPT ![w] =
          [@ EXCEPT !.pc = IF target \notin DOMAIN trackers[workers[w].inst]
                           THEN "create" ELSE "append",
                    !.made = @ + 1,
                    !.recorded = [@ EXCEPT ![target] = @ + 1],
                    !.args = [op |-> "record", target |-> target, level |-> level,
                              challenger |-> w, passed |-> passed]]]
    /\ UNCHANGED <<trackers, attackers>>
    /\ UNCHANGED <<ledgerVars, attackerVars, comparatorVars, ret>>

\* record: self.results[target] = {"history": []}
RecordCreate(w) ==
    /\ workers[w].pc = "create"
    /\ trackers' = [trackers EXCEPT ![workers[w].inst] =
                       store_empty_record(@, workers[w].args.target)]
    /\ workers' = [workers EXCEPT ![w].pc = "append"]
    /\ UNCHANGED attackers
    /\ UNCHANGED <<ledgerVars, attackerVars, comparatorVars, ret>>

\* record: self.results[target]["history"].append({...})
RecordAppend(w) ==
    /\ workers[w].pc = "append"
    /\ LET a == workers[w].args
       IN  /\ trackers' = [trackers EXCEPT ![workers[w].inst] =
                 append_history(@, a.target,
                     HistoryEntry(a.level, a.challenger, a.passed, "None", "t1"))]
           /\ workers' = [workers EXCEPT ![w] =
                 IF a.passed THEN [@ EXCEPT !.pc = "set_level"] ELSE Idle(w)]
    /\ UNCHANGED attackers
    /\ UNCHANGED <<ledgerVars, attackerVars, comparatorVars, ret>>

\* record: if passed: self.results[target]["current_level"] = level
RecordSetLevel(w) ==
    /\ workers[w].pc = "set_level"
    /\ trackers' = [trackers EXCEPT ![workers[w].inst] =
                       set_current_level(@, workers[w].args.target,
                                         workers[w].args.level)]
    /\ workers' = [workers EXCEPT ![w] = Idle(w)]
    /\ UNCHANGED attackers
    /\ UNCHANGED <<ledgerVars, attackerVars, comparatorVars, ret>>

\* random_tensor, self.attempts += 1: the value of self.attempts is loaded
AttemptsRead(w, shape, strategy) ==
    /\ workers[w].pc = "idle"
    /\ workers[w].made < MaxWorkerCalls
    /\ workers' = [workers EXCEPT ![w] =
          [@ EXCEPT !.pc = "write",
                    !.made = @ + 1,
                    !.generated = @ + 1,
                    !.args = [op |-> "random_tensor", shape |-> shape,
                              strategy |-> strategy],
                    !.read = attackers[workers[w].inst].attempts]]
    /\ UNCHANGED <<trackers, attackers>>
    /\ UNCHANGED <<ledgerVars, attackerVars, comparatorVars, ret>>

\* random_tensor, self.attempts += 1: the loaded value plus 1 is stored
AttemptsWrite(w) ==
    /\ workers[w].pc = "write"
    /\ attackers' = [attackers EXCEPT ![workers[w].inst].attempts = workers[w].read + 1]
    /\ workers' = [workers EXCEPT ![w].pc = "generate"]
    /\ UNCHANGED trackers
    /\ UNCHANGED <<ledgerVars, attackerVars, comparatorVars, ret>>

\* random_tensor: the data is drawn from self.rng
GenerateData(w) ==
    /\ workers[w].pc = "generate"
    /\ attackers' = [attackers EXCEPT ![workers[w].inst].rng =
                        generate(@, workers[w].args.shape, workers[w].args.strategy).rng]
    /\ workers' = [workers EXCEPT ![w] = Idle(w)]
    /\ UNCHANGED trackers
    /\ UNCHANGED <<ledgerVars, attackerVars, comparatorVars, ret>>

InitWorkers ==
    /\ results = TrackerInit
    /\ calls = <<>>
    /\ attacker = AttackerInit(DEFAULT_SEED)
    /\ twin = AttackerInit(DEFAULT_SEED)
    /\ artifacts = <<>>
    /\ twinArtifacts = <<>>
    /\ ret = NoCall
    /\ NoComparison
    /\ \E mode \in Modes :
          /\ workers = [w \in Workers |-> WorkerInit(mode, w)]
          /\ trackers = [i \in Instances(mode) |-> TrackerInit]
          /\ attackers = [i \in Instances(mode) |-> AttackerInit(DEFAULT_SEED)]

NextWorkers ==
    \E w \in Workers :
        \/ \E target \in Targets, level \in WorkerLevels, passed \in BOOLEAN :
              RecordCheck(w, target, level, passed)
        \/ RecordCreate(w)
        \/ RecordAppend(w)
        \/ RecordSetLevel(w)
        \/ \E shape \in WorkerShapes, strategy \in WorkerStrategies :
              AttemptsRead(w, shape, strategy)
        \/ AttemptsWrite(w)
        \/ GenerateData(w)

SpecWorkers == InitWorkers /\ [][NextWorkers]_vars

\* ------------------------------------------------------------ worker claims

\* the record calls the workers of S have made for target t
RECURSIVE RecordCallsBy(_, _)
RecordCallsBy(S, t) ==
    IF S = {} THEN 0
    ELSE LET w == CHOOSE x \in S : TRUE
         IN  workers[w].recorded[t] + RecordCallsBy(S \ {w}, t)

\* the random_tensor calls the workers of S have made
RECURSIVE GenerateCallsBy(_)
GenerateCallsBy(S) ==
    IF S = {} THEN 0
    ELSE LET w == CHOOSE x \in S : TRUE
         IN  workers[w].generated + GenerateCallsBy(S \ {w})

UsersOf(i) == {w \in Workers : workers[w].inst = i}

\* the record calls made for target t on instance i, by all of its workers
RecordCallsOn(i, t) == RecordCallsBy(UsersOf(i), t)

\* the random_tensor calls made on instance i, by all of its workers
GenerateCallsOn(i) == GenerateCallsBy(UsersOf(i))

AllIdle == \A w \in Workers : workers[w].pc = "idle"

\* C18: when every worker has instances of its own, then whatever the
\* interleaving, once the calls have returned every history is as long as the
\* number of record calls made for its target and attempts is the number of
\* random_tensor calls made.  (With shared instances both can be lost: the
\* witness.)
C18_OwnInstancesKeepTheCounts ==
    (AllIdle /\ \A w \in Workers : workers[w].mode = "own") =>
        /\ \A w \in Workers : UsersOf(workers[w].inst) = {w}
        /\ \A i \in DOMAIN trackers : \A t \in Targets :
              Len(HistoryOf(trackers[i], t)) = RecordCallsOn(i, t)
        /\ \A i \in DOMAIN attackers : attackers[i].attempts = GenerateCallsOn(i)

\* C18 witness: two workers on shared instances, all calls returned; a history
\* entry was lost (both calls found the target missing, the second creation
\* dropped the first entry) and a counter update was lost (both calls read
\* attempts before either stored it).
C18_Witness ==
    /\ AllIdle
    /\ \A w \in Workers : workers[w].mode = "shared"
    /\ \E t \in Targets :
          /\ RecordCallsOn("shared", t) = 2
          /\ Len(HistoryOf(trackers["shared"], t)) = 1
    /\ GenerateCallsOn("shared") = 2
    /\ attackers["shared"].attempts = 1

====
